---------------------------- MODULE Spec2Model ----------------------------
(***************************************************************************)
(* A model of ALIAS (Anomalous Lines In APOGEE Spectra): the peak          *)
(* detector, the residual extractor, the injection harness, the continuum  *)
(* estimator and the line characterizer of src/alias.                      *)
(*                                                                         *)
(* Numbers.  Flux values are fixed-point integers in hundredths, so the    *)
(* height threshold and the residual floor 0.05 are 5.  A missing value    *)
(* (numpy's nan) is the sentinel NaN; every comparison with it is false    *)
(* and every sum with it is NaN, as in IEEE arithmetic.                    *)
(*                                                                         *)
(* Indices.  Arrays are TLA+ sequences; At(a, i) reads the element the     *)
(* Python code calls a[i] for 0 <= i < len(a), so that every index in the  *)
(* model is the index of the source.                                       *)
(***************************************************************************)
EXTENDS Integers, Sequences, FiniteSets, TLC

VARIABLES
    \* detect (one spectrum)
    det_flux, det_peaks, det_pc,
    \* detect_all (a dataset)
    da_flux, da_n, da_all, da_pc,
    \* get_residuals
    rs_flux, rs_out, rs_pc,
    \* inject and injection_test: the heap of arrays, the input dataset, the
    \* returned dataset, the heap before the call, the call's arguments
    in_heap, in_ds, in_ret, in_pre, in_args, in_pc,
    \* injection_test: trial counter, count, results, the trials drawn
    it_i, it_count, it_results, it_log, it_pc,
    \* continuum_normalize: the dataset's flux, the spectrum being processed,
    \* and inside _extract_continuum the segment counter, the continuum
    \* pixels selected so far and the three fits; the continuums computed so
    \* far and the returned dataset
    cn_ds, cn_f, cn_n, cn_pix, cn_fit, cn_conts, cn_ret, cn_pc,
    \* characterize: the spectrum and the candidate pixel; inside
    \* _characterize_single the window, the amplitude guess, the grid index
    \* of best_amplitude, the two walk positions, the indices read
    ch_wave, ch_flux, ch_ivar, ch_peak, ch_win, ch_amp, ch_best, ch_min,
    ch_max, ch_reads, ch_pc

detVars == <<det_flux, det_peaks, det_pc>>
daVars == <<da_flux, da_n, da_all, da_pc>>
rsVars == <<rs_flux, rs_out, rs_pc>>
inVars == <<in_heap, in_ds, in_ret, in_pre, in_args, in_pc>>
itVars == <<it_i, it_count, it_results, it_log, it_pc>>
cnVars == <<cn_ds, cn_f, cn_n, cn_pix, cn_fit, cn_conts, cn_ret, cn_pc>>
chVars == <<ch_wave, ch_flux, ch_ivar, ch_peak, ch_win, ch_amp, ch_best, ch_min,
           ch_max, ch_reads, ch_pc>>
vars == <<detVars, daVars, rsVars, inVars, itVars, cnVars, chVars>>

-----------------------------------------------------------------------------
(* Values and arrays *)

NaN == -1000000

IsNaN(a) == a = NaN

\* IEEE comparisons: false as soon as one side is missing.
Lt(a, b) == ~IsNaN(a) /\ ~IsNaN(b) /\ a < b
Le(a, b) == ~IsNaN(a) /\ ~IsNaN(b) /\ a <= b
Gt(a, b) == Lt(b, a)
Eq(a, b) == ~IsNaN(a) /\ ~IsNaN(b) /\ a = b

Add(a, b) == IF IsNaN(a) \/ IsNaN(b) THEN NaN ELSE a + b
Sub(a, b) == IF IsNaN(a) \/ IsNaN(b) THEN NaN ELSE a - b

At(a, i) == a[i + 1]

Range(s) == {s[k] : k \in 1..Len(s)}

Min2(a, b) == IF a < b THEN a ELSE b
Max2(a, b) == IF a > b THEN a ELSE b

\* All sequences over S of length n, and of length at most n.
SeqsOfLen(S, n) == [1..n -> S]
SeqsUpTo(S, n) == UNION {SeqsOfLen(S, k) : k \in 0..n}

IsIncreasing(s) == \A k \in 1..(Len(s) - 1) : s[k] < s[k + 1]

-----------------------------------------------------------------------------
(* Peak detector: detect = scipy.signal.find_peaks(flux, height = 0.05)[0] *)

height == 5

\* The sample reported for a flat peak whose edges are left and right.
MidpointLeft(left, right) == left
Midpoint(left, right) == (left + right) \div 2

\* The scan over a plateau: while i_ahead < i_max and x[i_ahead] == x[i].
RECURSIVE PlateauAhead(_, _, _)
PlateauAhead(x, i, i_ahead) ==
    IF i_ahead < Len(x) - 1 /\ Eq(At(x, i_ahead), At(x, i))
    THEN PlateauAhead(x, i, i_ahead + 1)
    ELSE i_ahead

\* The local maxima of x found from index i on (i runs from 1 to len(x) - 2).
RECURSIVE LocalMaxima(_, _)
LocalMaxima(x, i) ==
    IF i >= Len(x) - 1 THEN <<>>
    ELSE IF Lt(At(x, i - 1), At(x, i))
         THEN LET i_ahead == PlateauAhead(x, i, i + 1) IN
              IF Lt(At(x, i_ahead), At(x, i))
              THEN <<Midpoint(i, i_ahead - 1)>> \o LocalMaxima(x, i_ahead + 1)
              ELSE LocalMaxima(x, i + 1)
         ELSE LocalMaxima(x, i + 1)

\* The height condition: a peak is kept when height <= x[peak].
HeightOk(h) == Le(height, h)

detect(wave, flux, ivar) ==
    SelectSeq(LocalMaxima(flux, 1), LAMBDA p : HeightOk(At(flux, p)))

-----------------------------------------------------------------------------
(* detect on one spectrum *)

MaxLen == 5
DetValues == {NaN, 0, 4, 5, 10}

DetIdle == det_flux = <<>> /\ det_peaks = <<>> /\ det_pc = "off"

DetInit ==
    /\ det_flux \in SeqsUpTo(DetValues, MaxLen)
    /\ det_peaks = <<>>
    /\ det_pc = "call"

Detect ==
    /\ det_pc = "call"
    /\ det_peaks' = detect(<<>>, det_flux, <<>>)
    /\ det_pc' = "done"
    /\ UNCHANGED <<det_flux, daVars, rsVars, inVars, itVars, cnVars, chVars>>

-----------------------------------------------------------------------------
(* detect_all on a dataset *)

MaxSpectra == 2
MaxPix == 5
DaValues == {0, 10}

DaIdle == da_flux = <<>> /\ da_n = 0 /\ da_all = <<>> /\ da_pc = "off"

DaInit ==
    /\ \E M \in 0..MaxSpectra, N \in 1..MaxPix :
          da_flux \in SeqsOfLen(SeqsOfLen(DaValues, N), M)
    /\ da_n = 0
    /\ da_all = <<>>
    /\ da_pc = "loop"

\* The pairs (n, peak) one iteration of the outer loop appends.
PairsOf(n, peaks) == [k \in 1..Len(peaks) |-> <<n, peaks[k]>>]

AppendPairsFront(all, pairs) == pairs \o all
AppendPairs(all, pairs) == all \o pairs

\* One iteration of "for n in range(len(ds.flux))".
detect_all_iter ==
    /\ da_pc = "loop"
    /\ da_n < Len(da_flux)
    /\ da_all' = AppendPairs(da_all, PairsOf(da_n, detect(<<>>, At(da_flux, da_n), <<>>)))
    /\ da_n' = da_n + 1
    /\ UNCHANGED <<da_flux, da_pc, detVars, rsVars, inVars, itVars, cnVars, chVars>>

detect_all_return ==
    /\ da_pc = "loop"
    /\ da_n = Len(da_flux)
    /\ da_pc' = "done"
    /\ UNCHANGED <<da_flux, da_n, da_all, detVars, rsVars, inVars, itVars, cnVars, chVars>>

-----------------------------------------------------------------------------
(* Claims about the peak detector *)

\* x[l..r] is a flat peak: a run of equal samples, strictly higher than the
\* sample before it and the sample after it, all inside the array.
FlatPeak(x, l, r) ==
    /\ 1 <= l /\ l <= r /\ r <= Len(x) - 2
    /\ Lt(At(x, l - 1), At(x, l))
    /\ \A k \in l..r : Eq(At(x, k), At(x, l))
    /\ Lt(At(x, r + 1), At(x, l))

FlatPeaks(x) == {lr \in (0..Len(x)) \X (0..Len(x)) : FlatPeak(x, lr[1], lr[2])}

\* C1 (as amended): detect returns, in increasing order, exactly the middle
\* samples (rounded down) of the flat peaks whose height is at or above the
\* threshold 0.05; a strict interior maximum is a flat peak of width one.
C1_DetectMiddleOfFlatPeak ==
    det_pc = "done" =>
        /\ IsIncreasing(det_peaks)
        /\ Range(det_peaks) =
              {(lr[1] + lr[2]) \div 2 : lr \in
                  {q \in FlatPeaks(det_flux) : Le(height, At(det_flux, q[1]))}}

\* C1 witness: a flat peak three samples wide, exactly at the threshold, has
\* been reported at its middle sample.
C1_Witness ==
    /\ det_pc = "done"
    /\ \E l \in 1..Len(det_flux) :
          /\ FlatPeak(det_flux, l, l + 2)
          /\ At(det_flux, l) = height
          /\ l + 1 \in Range(det_peaks)

\* C1 (as stated, its flat-peak part): for every flat peak that exceeds the
\* threshold, the index detect returns is the first sample of the run.
C1_DetectFirstOfFlatPeak ==
    det_pc = "done" =>
        \A lr \in FlatPeaks(det_flux) :
            Lt(height, At(det_flux, lr[1])) =>
                /\ lr[1] \in Range(det_peaks)
                /\ \A k \in (lr[1] + 1)..lr[2] : k \notin Range(det_peaks)

\* Lexicographic order on (spectrum_index, pixel_index) pairs.
PairLt(a, b) == a[1] < b[1] \/ (a[1] = b[1] /\ a[2] < b[2])

\* C2: the pairs detect_all returns are strictly increasing in (spectrum,
\* pixel) order, hence without repetition, and (n, p) is among them exactly
\* when detect on spectrum n alone returns p.
C2_DetectAllOrderedAndIndependent ==
    da_pc = "done" =>
        /\ \A k \in 1..(Len(da_all) - 1) : PairLt(da_all[k], da_all[k + 1])
        /\ \A k \in 1..Len(da_all) : da_all[k][1] \in 0..(Len(da_flux) - 1)
        /\ \A n \in 0..(Len(da_flux) - 1) :
              {q[2] : q \in {d \in Range(da_all) : d[1] = n}} =
                  {(lr[1] + lr[2]) \div 2 : lr \in
                      {q \in FlatPeaks(At(da_flux, n)) :
                          Le(height, At(At(da_flux, n), q[1]))}}

\* C2 witness: detect_all has returned detections of two spectra, two of
\* them in one spectrum.
C2_Witness ==
    /\ da_pc = "done"
    /\ \E j, k \in 1..Len(da_all) :
          /\ j < k
          /\ da_all[j][1] = da_all[k][1]
    /\ \E j, k \in 1..Len(da_all) : da_all[j][1] # da_all[k][1]

-----------------------------------------------------------------------------
(* Residual extractor: get_residuals *)

floor == 5

\* np.ma.filled(np.ma.MaskedArray(flux, flux < 0.05), np.nan), per sample.
FilledZero(v, masked) == IF masked THEN 0 ELSE v
Filled(v, masked) == IF masked THEN NaN ELSE v

MaskedFlux(v) == Filled(v, Lt(v, floor))

\* s with v inserted before the first element greater than v (s is sorted).
RECURSIVE Insert(_, _)
Insert(s, v) ==
    IF s = <<>> THEN <<v>>
    ELSE IF v <= Head(s) THEN <<v>> \o s
         ELSE <<Head(s)>> \o Insert(Tail(s), v)

RECURSIVE Sort(_)
Sort(s) == IF s = <<>> THEN <<>> ELSE Insert(Sort(Tail(s)), Head(s))

\* np.nanmedian of a column: the median of its values that are not nan, nan
\* when there is none; for an even count the mean of the two middle values.
nanmedian(col) ==
    LET a == Sort(SelectSeq(col, LAMBDA v : ~IsNaN(v)))
        n == Len(a)
    IN  IF n = 0 THEN NaN
        ELSE IF n % 2 = 1 THEN At(a, n \div 2)
             ELSE (At(a, n \div 2 - 1) + At(a, n \div 2)) \div 2

median_flux(flux, p) == nanmedian([n \in 1..Len(flux) |-> MaskedFlux(At(flux[n], p))])

get_residuals(flux) ==
    [n \in 1..Len(flux) |->
        [q \in 1..Len(flux[n]) |-> Sub(flux[n][q], median_flux(flux, q - 1))]]

ResMaxCells == 6
\* Even values, so that the mean of two of them is exact.
ResValues == {NaN, 4, 6, 100}

RsIdle == rs_flux = <<>> /\ rs_out = <<>> /\ rs_pc = "off"

RsInit ==
    /\ \E M \in 1..ResMaxCells, N \in 1..ResMaxCells :
          /\ M * N <= ResMaxCells
          /\ rs_flux \in SeqsOfLen(SeqsOfLen(ResValues, N), M)
    /\ rs_out = <<>>
    /\ rs_pc = "call"

GetResiduals ==
    /\ rs_pc = "call"
    /\ rs_out' = get_residuals(rs_flux)
    /\ rs_pc' = "done"
    /\ UNCHANGED <<rs_flux, detVars, daVars, inVars, itVars, cnVars, chVars>>

\* Every spectrum of the dataset is the same vector.
Identical(flux) == \A n \in 1..Len(flux) : flux[n] = flux[1]

\* C4 (as amended): for a dataset of identical spectra the residual is
\* exactly zero at every pixel whose common flux is at or above the floor
\* 0.05, and missing (nan) at every pixel whose common flux is below the
\* floor or missing.
C4_IdenticalResidualZeroAboveFloor ==
    (rs_pc = "done" /\ Identical(rs_flux)) =>
        \A n \in 1..Len(rs_flux) : \A q \in 1..Len(rs_flux[n]) :
            IF Le(floor, rs_flux[1][q])
            THEN rs_out[n][q] = 0
            ELSE IsNaN(rs_out[n][q])

\* C4 witness: get_residuals has run on two or more identical spectra with
\* one pixel above the floor and one pixel below it.
C4_Witness ==
    /\ rs_pc = "done"
    /\ Len(rs_flux) >= 2
    /\ Identical(rs_flux)
    /\ \E q \in 1..Len(rs_flux[1]) : Le(floor, rs_flux[1][q]) /\ rs_out[1][q] = 0
    /\ \E q \in 1..Len(rs_flux[1]) : Lt(rs_flux[1][q], floor)

\* C4 (as stated): for a dataset of identical spectra with no missing flux
\* the residual is exactly zero at every pixel, whatever the common values.
C4_IdenticalResidualZero ==
    (/\ rs_pc = "done"
     /\ Identical(rs_flux)
     /\ \A q \in 1..Len(rs_flux[1]) : ~IsNaN(rs_flux[1][q])) =>
        \A n \in 1..Len(rs_flux) : \A q \in 1..Len(rs_flux[n]) : rs_out[n][q] = 0

-----------------------------------------------------------------------------
(* Injection harness: create_laser_signature, inject, injection_test       *)
(*                                                                         *)
(* Here flux is fixed-point in units of 1e-8 (the digits of default_lsf.y) *)
(* and positions are in sixths of a pixel: default_lsf.x, 43 points from   *)
(* -7 to 7, has a step of a third of a pixel, two position units.          *)

One == 100000000
SubPix == 6

lsfx == [k \in 1..43 |-> 2 * (k - 1) - 7 * SubPix]
lsfy ==
    <<  308409,   349727,   405324,   471973,
        561687,   755368,  1002816,  1260949,
       1570783,  2114526,  3197088,  5200233,
       8584419, 13909110, 21720967, 32272260,
      45251839, 60676233, 76493717, 89244588,
      97567601,      One, 96041723, 86549600,
      73198544, 58318216, 43714065, 30872274,
      21824080, 15021121,  9954796,  6641710,
       4516253,  3132488,  2248034,  1609376,
       1115971,   800559,   596385,   467526,
        387761,   336630,   304458 >>

\* np.interp(x, xp, fp) for increasing xp: fp's end values outside xp, the
\* line through the two neighbouring points inside (rounded down to a unit).
interp(x, xp, fp) ==
    IF x <= xp[1] THEN fp[1]
    ELSE IF x >= xp[Len(xp)] THEN fp[Len(fp)]
    ELSE LET j == CHOOSE k \in 1..(Len(xp) - 1) : xp[k] <= x /\ x < xp[k + 1]
         IN  fp[j] + ((x - xp[j]) * (fp[j + 1] - fp[j])) \div (xp[j + 1] - xp[j])

\* line = np.interp(np.array(range(len(wave))) - idx, lsf.x, lsf.y)
create_laser_signature(wave, idx) ==
    [q \in 1..Len(wave) |-> interp((q - 1) * SubPix - idx, lsfx, lsfy)]

\* np.copy: a new array object holding the values of heap[r].
CopyAlias(heap, r, new) == [heap |-> heap, ref |-> r]
Copy(heap, r, new) == [heap |-> (new :> heap[r]) @@ heap, ref |-> new]

\* nflux[specId] += line * amp, in place in the array object nflux.
AddInPlace(heap, nflux, specId, line, amp) ==
    [heap EXCEPT ![nflux] =
        [@ EXCEPT ![specId + 1] =
            [q \in 1..Len(@) |-> Add(@[q], line[q] * amp)]]]

InjMaxCells == 4
InjValues == {NaN, 0, One}
InjAmps == {1, 2}

NoDataset == [wave |-> "none", flux |-> "none", ivar |-> "none"]

\* The positions idx an injection is tried at: every sixth of a pixel from
\* one pixel before the array to its end, and two positions more than seven
\* pixels away from every pixel.
InjIdx(N) == ((0 - SubPix)..(N * SubPix)) \cup {0 - 8 * SubPix, (N + 8) * SubPix}

InInitHeap(M, N, flux) ==
    [r \in {"wave", "flux", "ivar"} |->
        CASE r = "wave" -> [q \in 1..N |-> 15000 + q]
          [] r = "flux" -> flux
          [] r = "ivar" -> [n \in 1..M |-> [q \in 1..N |-> 400 + 10 * n + q]]]

InIdle ==
    /\ in_heap = <<>> /\ in_ds = NoDataset /\ in_ret = NoDataset
    /\ in_pre = <<>> /\ in_args = <<>> /\ in_pc = "off"

ItIdle ==
    /\ it_i = 0 /\ it_count = 0 /\ it_results = <<>> /\ it_log = <<>>
    /\ it_pc = "off"

\* A dataset on the heap, and one call: inject or injection_test.
InInit ==
    /\ \E M \in 1..InjMaxCells, N \in 1..InjMaxCells :
          /\ M * N <= InjMaxCells
          /\ \E flux \in SeqsOfLen(SeqsOfLen(InjValues, N), M) :
                in_heap = InInitHeap(M, N, flux)
    /\ in_ds = [wave |-> "wave", flux |-> "flux", ivar |-> "ivar"]
    /\ in_ret = NoDataset
    /\ in_pre = in_heap
    /\ in_args = <<>>
    /\ \/ in_pc = "call" /\ ItIdle
       \/ /\ in_pc = "off"
          /\ it_i = 0 /\ it_results = <<>> /\ it_log = <<>> /\ it_pc = "loop"
          /\ it_count \in 0..2

inject ==
    /\ in_pc = "call"
    /\ \E specId \in 0..(Len(in_heap[in_ds.flux]) - 1),
          idx \in InjIdx(Len(in_heap[in_ds.wave])),
          amp \in InjAmps :
          LET c == Copy(in_heap, in_ds.flux, "nflux")
              line == create_laser_signature(in_heap[in_ds.wave], idx)
          IN  /\ in_heap' = AddInPlace(c.heap, c.ref, specId, line, amp)
              /\ in_ret' = [wave |-> in_ds.wave, flux |-> c.ref, ivar |-> in_ds.ivar]
              /\ in_args' = [specId |-> specId, idx |-> idx, amp |-> amp]
    /\ in_pc' = "done"
    /\ UNCHANGED <<in_ds, in_pre, detVars, daVars, rsVars, itVars, cnVars, chVars>>

\* The names bound at module level in alias/injection.py.
InjectionGlobals ==
    {"alias", "np", "fits", "rand", "tqdm", "LSF", "default_lsf",
     "create_laser_signature", "inject", "injection_test"}

\* a[start:stop] as Python slices a sequence: a negative bound counts from
\* the end, and both bounds are clipped to the sequence.
SliceBound(b, n) == IF b < 0 THEN Max2(b + n, 0) ELSE Min2(b, n)
PySlice(a, start, stop) ==
    SubSeq(a, SliceBound(start, Len(a)) + 1, SliceBound(stop, Len(a)))

\* sum(w > 1) for a vector w of detector scores.
CountFlagged(w) == Cardinality({k \in 1..Len(w) : Gt(w[k], 1)})

\* detected = sum(weirdness[idx_int-3:idx_int+4] > 1)
Detected(weirdness, idx_int) == CountFlagged(PySlice(weirdness, idx_int - 3, idx_int + 4))
\* falsepos = sum(weirdness > 1) - detected
FalsePos(weirdness, idx_int) == CountFlagged(weirdness) - Detected(weirdness, idx_int)

\* The pixels a vector of detector scores flags.
Flagged(weirdness) == {j \in 0..(Len(weirdness) - 1) : Gt(At(weirdness, j), 1)}

\* One iteration of "for i in range(count)".  The injected signature is
\* computed by calling _createLaserSignature, a name that alias/injection.py
\* binds nowhere: the lookup raises NameError before the detector is called
\* and before anything is appended to results.
injection_test_trial ==
    /\ it_pc = "loop"
    /\ it_i < it_count
    /\ \E spec \in 0..(Len(in_heap[in_ds.flux]) - 1) :
          LET flux == At(in_heap[in_ds.flux], spec)
              valid_idx == {q \in 0..(Len(flux) - 1) : ~IsNaN(At(flux, q))}
          IN  IF valid_idx = {}
              THEN \* np.random.choice of an empty array
                   /\ it_pc' = "ValueError"
                   /\ UNCHANGED <<it_i, it_results, it_log>>
              ELSE \E idx_int \in valid_idx :
                   IF "_createLaserSignature" \in InjectionGlobals
                   THEN \E weirdness \in SeqsOfLen({0, 2}, Len(flux)) :
                        /\ it_results' = Append(it_results,
                              [spec |-> spec,
                               detected |-> Detected(weirdness, idx_int) > 0,
                               falsepos |-> FalsePos(weirdness, idx_int)])
                        /\ it_log' = Append(it_log,
                              [spec |-> spec, idx_int |-> idx_int,
                               flagged |-> Flagged(weirdness)])
                        /\ it_i' = it_i + 1
                        /\ UNCHANGED it_pc
                   ELSE /\ it_pc' = "NameError"
                        /\ it_log' = Append(it_log,
                              [spec |-> spec, idx_int |-> idx_int, flagged |-> {}])
                        /\ UNCHANGED <<it_i, it_results>>
    /\ UNCHANGED <<it_count, inVars, detVars, daVars, rsVars, cnVars, chVars>>

\* return np.array(results), once the loop has run count times.
injection_test_return ==
    /\ it_pc = "loop"
    /\ it_i = it_count
    /\ it_pc' = "done"
    /\ UNCHANGED <<it_i, it_count, it_results, it_log, inVars, detVars, daVars, rsVars, cnVars, chVars>>

-----------------------------------------------------------------------------
(* Claims about the injection harness *)

\* v is the value of the LSF profile at offset off (pixel minus centre, in
\* sixths of a pixel): the end values beyond +-7 pixels, the tabulated value
\* on a grid point, between the two neighbouring tabulated values elsewhere.
ProfileAt(off, v) ==
    /\ off <= lsfx[1] => v = lsfy[1]
    /\ off >= lsfx[43] => v = lsfy[43]
    /\ \A k \in 1..43 : off = lsfx[k] => v = lsfy[k]
    /\ \A k \in 1..42 :
          (lsfx[k] < off /\ off < lsfx[k + 1]) =>
              /\ Min2(lsfy[k], lsfy[k + 1]) <= v
              /\ v <= Max2(lsfy[k], lsfy[k + 1])

\* C3: after inject, every array of the input dataset holds the values it
\* held before the call; the returned wave and ivar are those of the input;
\* the returned flux equals the input flux in every spectrum but specId, and
\* in spectrum specId it is the input flux plus amp times the LSF profile
\* centred at idx.
C3_InjectLeavesInputUnchanged ==
    in_pc = "done" =>
        LET pre == in_pre[in_ds.flux]
            ret == in_heap[in_ret.flux]
            s == in_args.specId + 1
        IN  /\ \A r \in {in_ds.wave, in_ds.flux, in_ds.ivar} : in_heap[r] = in_pre[r]
            /\ in_heap[in_ret.wave] = in_pre[in_ds.wave]
            /\ in_heap[in_ret.ivar] = in_pre[in_ds.ivar]
            /\ Len(ret) = Len(pre)
            /\ \A n \in 1..Len(pre) : n # s => ret[n] = pre[n]
            /\ Len(ret[s]) = Len(pre[s])
            /\ \A q \in 1..Len(pre[s]) :
                  IF IsNaN(pre[s][q]) THEN IsNaN(ret[s][q])
                  ELSE /\ ~IsNaN(ret[s][q])
                       /\ (ret[s][q] - pre[s][q]) % in_args.amp = 0
                       /\ ProfileAt((q - 1) * SubPix - in_args.idx,
                                    (ret[s][q] - pre[s][q]) \div in_args.amp)

\* C3 witness: inject has put a line centred on a valid pixel of one of two
\* or more spectra, and the returned flux differs from the input there by
\* amp times the peak of the profile.
C3_Witness ==
    /\ in_pc = "done"
    /\ Len(in_pre[in_ds.flux]) >= 2
    /\ in_args.idx % SubPix = 0
    /\ LET s == in_args.specId + 1
           q == in_args.idx \div SubPix + 1
       IN  /\ q \in 1..Len(in_pre[in_ds.flux][s])
           /\ ~IsNaN(in_pre[in_ds.flux][s][q])
           /\ in_heap[in_ret.flux][s][q] = in_pre[in_ds.flux][s][q] + in_args.amp * One

\* C5: every trial injection_test has drawn is recorded, as detected exactly
\* when a flagged pixel lies within 3 pixels of the injected index, with the
\* flagged pixels further away counted as false positives.
C5_TrialScoredWithinThreePixels ==
    \A k \in 1..Len(it_log) :
        /\ k <= Len(it_results)
        /\ it_results[k].spec = it_log[k].spec
        /\ it_results[k].detected =
              (\E j \in it_log[k].flagged :
                  j - it_log[k].idx_int <= 3 /\ it_log[k].idx_int - j <= 3)
        /\ it_results[k].falsepos =
              Cardinality({j \in it_log[k].flagged :
                  j - it_log[k].idx_int > 3 \/ it_log[k].idx_int - j > 3})

-----------------------------------------------------------------------------
(* Continuum estimator: _extract_continuum and continuum_normalize         *)
(*                                                                         *)
(* A spectrum has thousands of pixels (the chip bands end at 3400 and      *)
(* 6250), so the state holds a spectrum as the parameters of a family and  *)
(* FluxAt expands them: a flat spectrum, or a sawtooth whose ten levels    *)
(* repeat every ten pixels, with one range of pixels missing.  Flux is in  *)
(* hundredths.  A fitted polynomial is held as the set of continuum pixels *)
(* it was fitted to; np.polyfit raises TypeError when that set is empty.   *)

segment_len == 100
Band1End == 3400
Band2End == 6250

FluxAt(f, i) ==
    IF f.nanlo <= i /\ i < f.nanhi THEN NaN
    ELSE IF f.kind = "flat" THEN f.level
         ELSE f.level + ((i + f.phase) % 10)

\* flux = np.concatenate((flux, [nan] * (segment_len - len(flux) % segment_len)))
PaddedLen(f) == f.len + (segment_len - (f.len % segment_len))
PaddedAt(f, i) == IF i < f.len THEN FluxAt(f, i) ELSE NaN

\* f_idx[n]: the pixels of segment n; there are int(len(flux)/segment_len).
NumSegments(f) == PaddedLen(f) \div segment_len
SegmentIdx(n) == (segment_len * n)..(segment_len * n + segment_len - 1)

\* The values of segment n that are not nan, as a bag: value |-> how often.
SegmentBag(f, n) ==
    LET valid == {i \in SegmentIdx(n) : ~IsNaN(PaddedAt(f, i))}
        vals == {PaddedAt(f, i) : i \in valid}
    IN  [v \in vals |-> Cardinality({i \in valid : PaddedAt(f, i) = v})]

RECURSIVE BagSize(_, _)
BagSize(bag, vals) ==
    IF vals = {} THEN 0
    ELSE LET v == CHOOSE w \in vals : TRUE
         IN  bag[v] + BagSize(bag, vals \ {v})

\* a[k] of the sorted bag, k from 0.
BagKth(bag, k) ==
    CHOOSE v \in DOMAIN bag :
        /\ BagSize(bag, {w \in DOMAIN bag : w < v}) <= k
        /\ k < BagSize(bag, {w \in DOMAIN bag : w <= v})

\* np.nanpercentile(segment, q), times 100: with a[0..m-1] the sorted values
\* that are not nan, a[lo] + frac * (a[lo+1] - a[lo]) at position
\* q/100 * (m - 1); nan for a segment with no value.
nanpercentile100(bag, q) ==
    LET m == BagSize(bag, DOMAIN bag)
        lo == (q * (m - 1)) \div 100
        frac100 == (q * (m - 1)) % 100
    IN  IF m = 0 THEN NaN
        ELSE IF frac100 = 0 THEN 100 * BagKth(bag, lo)
             ELSE 100 * BagKth(bag, lo)
                  + frac100 * (BagKth(bag, lo + 1) - BagKth(bag, lo))

max_perc100(bag) == nanpercentile100(bag, 80)
min_perc100(bag) == nanpercentile100(bag, 70)

Times100(v) == IF IsNaN(v) THEN NaN ELSE 100 * v

\* np.where((segment > min_perc[n]) & (segment < max_perc[n]))[0] + segment_len*n
SegmentContinuumPixels(f, n) ==
    LET bag == SegmentBag(f, n)
        lo == min_perc100(bag)
        hi == max_perc100(bag)
    IN  {i \in SegmentIdx(n) :
            Gt(Times100(PaddedAt(f, i)), lo) /\ Lt(Times100(PaddedAt(f, i)), hi)}

\* The continuum pixels each band's polynomial is fitted to.
cont1(all_continuum_pixels) == {i \in all_continuum_pixels : i < Band1End}
cont2(all_continuum_pixels) ==
    {i \in all_continuum_pixels : i > Band1End /\ i < Band2End}
cont3(all_continuum_pixels) == {i \in all_continuum_pixels : i > Band2End}

\* The band whose polynomial gives the continuum at pixel i:
\* np.concatenate((cont1[:3400], cont2[3400:6250], cont3[6250:])).
EvalBand(i) == IF i < Band1End THEN 1 ELSE IF i < Band2End THEN 2 ELSE 3

NoFit == [fit1 |-> {}, fit2 |-> {}, fit3 |-> {}]
NoResult == <<>>

CnMaxSpectra == 2
CnLens == {6300, 6351}

CnSpectra(len) ==
    {[len |-> len, kind |-> k, level |-> 100, phase |-> ph, nanlo |-> nl, nanhi |-> nh] :
        k \in {"saw"}, ph \in {0, 7}, nl \in {0, Band1End}, nh \in {0, Band2End}}
    \cup
    {[len |-> len, kind |-> "flat", level |-> 100, phase |-> 0, nanlo |-> nl, nanhi |-> nh] :
        nl \in {0, Band1End}, nh \in {0, Band2End}}

CnIdle ==
    /\ cn_ds = <<>> /\ cn_f = 0 /\ cn_n = 0 /\ cn_pix = {} /\ cn_fit = NoFit
    /\ cn_conts = <<>> /\ cn_ret = NoResult /\ cn_pc = "off"

CnInit ==
    /\ \E len \in CnLens, M \in 1..CnMaxSpectra :
          cn_ds \in SeqsOfLen({f \in CnSpectra(len) :
                                  (f.nanlo = 0 /\ f.nanhi = 0)
                                  \/ (f.nanlo = Band1End /\ f.nanhi = Band2End)}, M)
    /\ cn_f = 0 /\ cn_n = 0 /\ cn_pix = {} /\ cn_fit = NoFit
    /\ cn_conts = <<>> /\ cn_ret = NoResult /\ cn_pc = "segments"

\* _extract_continuum, one segment n of the selection of continuum pixels.
select_segment ==
    /\ cn_pc = "segments"
    /\ cn_n < NumSegments(At(cn_ds, cn_f))
    /\ cn_pix' = cn_pix \cup SegmentContinuumPixels(At(cn_ds, cn_f), cn_n)
    /\ cn_n' = cn_n + 1
    /\ UNCHANGED <<cn_ds, cn_f, cn_fit, cn_conts, cn_ret, cn_pc>>
    /\ UNCHANGED <<detVars, daVars, rsVars, inVars, itVars, chVars>>

\* _extract_continuum, the three np.polyfit calls: TypeError ("expected
\* non-empty vector for x") leaves continuum_normalize when a band has no
\* continuum pixel.
fit_bands ==
    /\ cn_pc = "segments"
    /\ cn_n = NumSegments(At(cn_ds, cn_f))
    /\ IF cont1(cn_pix) = {} \/ cont2(cn_pix) = {} \/ cont3(cn_pix) = {}
       THEN cn_pc' = "TypeError" /\ UNCHANGED cn_fit
       ELSE /\ cn_fit' = [fit1 |-> cont1(cn_pix), fit2 |-> cont2(cn_pix),
                          fit3 |-> cont3(cn_pix)]
            /\ cn_pc' = "eval"
    /\ UNCHANGED <<cn_ds, cn_f, cn_n, cn_pix, cn_conts, cn_ret>>
    /\ UNCHANGED <<detVars, daVars, rsVars, inVars, itVars, chVars>>

\* _extract_continuum, the evaluation and the return of the continuum; the
\* list comprehension of continuum_normalize goes on to the next spectrum.
evaluate_bands ==
    /\ cn_pc = "eval"
    /\ cn_conts' = Append(cn_conts, [len |-> PaddedLen(At(cn_ds, cn_f)), fit |-> cn_fit])
    /\ cn_f' = cn_f + 1
    /\ cn_n' = 0
    /\ cn_pix' = {}
    /\ cn_fit' = NoFit
    /\ cn_pc' = IF cn_f + 1 < Len(cn_ds) THEN "segments" ELSE "return"
    /\ UNCHANGED <<cn_ds, cn_ret>>
    /\ UNCHANGED <<detVars, daVars, rsVars, inVars, itVars, chVars>>

\* return Dataset(ds.wave, ds.flux/continuums, ds.ivar*continuums**2), the
\* continuums cut to len(ds.flux[0]).
continuum_normalize_return ==
    /\ cn_pc = "return"
    /\ cn_ret' = [n \in 1..Len(cn_ds) |->
                    [flux |-> cn_ds[n],
                     continuum |-> [len |-> cn_ds[1].len, fit |-> cn_conts[n].fit]]]
    /\ cn_pc' = "done"
    /\ UNCHANGED <<cn_ds, cn_f, cn_n, cn_pix, cn_fit, cn_conts>>
    /\ UNCHANGED <<detVars, daVars, rsVars, inVars, itVars, chVars>>

-----------------------------------------------------------------------------
(* Claims about the continuum estimator *)

\* The spectrum _extract_continuum is working on.
CurrentSpectrum == At(cn_ds, cn_f)

\* An all-valid, perfectly flat spectrum of unit flux.
FlatUnit(f) == f.kind = "flat" /\ f.level = 100 /\ f.nanlo >= f.nanhi

\* C6: a batch call in which the computation for one spectrum fails still
\* ends with the results of the other spectra: once a spectrum's continuum
\* has been computed, the call does not end without returning it.
C6_OneFailureKeepsOtherResults ==
    (cn_pc \in {"done", "TypeError"} /\ Len(cn_conts) >= 1) =>
        /\ cn_ret # NoResult
        /\ \A n \in 1..Len(cn_conts) : cn_ret[n].continuum.fit = cn_conts[n].fit

\* C7: for an all-valid flat spectrum of unit flux the continuum estimator
\* completes: the selection of continuum pixels leaves each band with
\* pixels to fit and no exception is raised.
C7_FlatUnitFluxCompletes ==
    (cn_pc \in {"segments", "eval", "TypeError"} /\ FlatUnit(CurrentSpectrum)) =>
        /\ cn_pc # "TypeError"
        /\ cn_n = NumSegments(CurrentSpectrum) =>
              cont1(cn_pix) # {} /\ cont2(cn_pix) # {} /\ cont3(cn_pix) # {}

\* C9: every selected continuum pixel is used in the fit of exactly one
\* band, the band whose index range contains it, which is the band whose
\* polynomial gives the continuum there.
C9_BandsPartitionFit ==
    cn_pc = "eval" =>
        \A i \in cn_pix :
            /\ (i \in cn_fit.fit1) = (EvalBand(i) = 1)
            /\ (i \in cn_fit.fit2) = (EvalBand(i) = 2)
            /\ (i \in cn_fit.fit3) = (EvalBand(i) = 3)

-----------------------------------------------------------------------------
(* Line characterizer: characterize and _characterize_single               *)
(*                                                                         *)
(* The chi-square grid searches minimise sums of squares of floating-point *)
(* numbers, which integer arithmetic cannot reproduce; the model lets      *)
(* best_amplitude be any of the 64 grid amplitudes                         *)
(* amps[k] = amp * (63 + k) / 90, so the width walk is explored for every  *)
(* outcome of the search.  A walk compares flux with best_amplitude / 2.   *)

HalfWidth == 10
GridPoints == 64

\* flux[index] > best_amplitude/2, with best_amplitude = amps[k].
AboveHalf(v, amp, k) ==
    ~IsNaN(v) /\ ~IsNaN(amp) /\ 2 * 90 * v > amp * (GridPoints - 1 + k)

\* a[i] for a Python index i: from the end when negative; out of range
\* outside -len(a) .. len(a) - 1.
InRange(a, i) == 0 - Len(a) <= i /\ i <= Len(a) - 1
Index(a, i) == IF i < 0 THEN a[i + Len(a) + 1] ELSE a[i + 1]

\* The indices a[start:stop] reads.
SliceIndices(a, start, stop) ==
    SliceBound(start, Len(a))..(SliceBound(stop, Len(a)) - 1)

\* while flux[min] > best_amplitude/2 and min > 0: min = min-1
\* The result: where the walk stops, the indices it read flux at, and
\* whether a read was out of range.
RECURSIVE WalkLow(_, _, _, _, _)
WalkLow(flux, amp, k, min, reads) ==
    IF ~InRange(flux, min)
    THEN [pos |-> min, reads |-> reads \cup {min}, error |-> TRUE]
    ELSE IF AboveHalf(Index(flux, min), amp, k) /\ min > 0
         THEN WalkLow(flux, amp, k, min - 1, reads \cup {min})
         ELSE [pos |-> min, reads |-> reads \cup {min}, error |-> FALSE]

\* while flux[max] > best_amplitude/2 and max < len(wave) - 1: max = max+1
RECURSIVE WalkHigh(_, _, _, _, _)
WalkHigh(flux, amp, k, max, reads) ==
    IF ~InRange(flux, max)
    THEN [pos |-> max, reads |-> reads \cup {max}, error |-> TRUE]
    ELSE IF AboveHalf(Index(flux, max), amp, k) /\ max < Len(flux) - 1
         THEN WalkHigh(flux, amp, k, max + 1, reads \cup {max})
         ELSE [pos |-> max, reads |-> reads \cup {max}, error |-> FALSE]

\* The spectra characterize is tried on: lengths around the window size,
\* a triangular line at the candidate or a flat high flux, and samples
\* missing in flux or in ivar.
ChLens == {1, 2, 3, 5, 21, 22, 25}
ChShapes == {"line", "high"}
ChMasks == {"none", "all", "notpeak", "notpeakpair", "left", "ivar"}

Abs(a) == IF a < 0 THEN 0 - a ELSE a

ChMissing(mask, i, peak) ==
    CASE mask = "none" -> FALSE
      [] mask = "all" -> TRUE
      [] mask = "notpeak" -> i # peak
      [] mask = "notpeakpair" -> i # peak /\ i # peak + 1
      [] mask = "left" -> i < peak
      [] mask = "ivar" -> FALSE

ChFlux(N, shape, mask, peak) ==
    [q \in 1..N |->
        IF ChMissing(mask, q - 1, peak) THEN NaN
        ELSE IF shape = "high" THEN 100
             ELSE Max2(0, 100 - 30 * Abs(q - 1 - peak))]

ChIvar(N, mask) == [q \in 1..N |-> IF mask = "ivar" THEN NaN ELSE 400]

NoWindow == [wave |-> <<>>, flux |-> <<>>, ivar |-> <<>>]

ChIdle ==
    /\ ch_wave = <<>> /\ ch_flux = <<>> /\ ch_ivar = <<>> /\ ch_peak = 0
    /\ ch_win = NoWindow /\ ch_amp = 0 /\ ch_best = 0 /\ ch_min = 0
    /\ ch_max = 0 /\ ch_reads = {} /\ ch_pc = "off"

ChInit ==
    /\ \E N \in ChLens, shape \in ChShapes, mask \in ChMasks :
          /\ ch_peak \in 0..(N - 1)
          /\ ch_wave = [q \in 1..N |-> 15000 + q]
          /\ ch_flux = ChFlux(N, shape, mask, ch_peak)
          /\ ch_ivar = ChIvar(N, mask)
    /\ ch_win = NoWindow /\ ch_amp = 0 /\ ch_best = 0 /\ ch_min = 0
    /\ ch_max = 0 /\ ch_reads = {} /\ ch_pc = "call"

\* The samples of a window at which neither wave, flux nor ivar is nan.
Kept(w, f, v) == {q \in 1..Len(f) : ~(IsNaN(f[q]) \/ IsNaN(w[q]) \/ IsNaN(v[q]))}

RECURSIVE Filter(_, _, _)
Filter(a, keep, q) ==
    IF q > Len(a) THEN <<>>
    ELSE (IF q \in keep THEN <<a[q]>> ELSE <<>>) \o Filter(a, keep, q + 1)

\* characterize: the three slices, the nan filter, and the call of
\* _characterize_single with the filtered window and flux[peak].
characterize ==
    /\ ch_pc = "call"
    /\ LET peak_w == PySlice(ch_wave, ch_peak - HalfWidth, ch_peak + HalfWidth + 1)
           peak_f == PySlice(ch_flux, ch_peak - HalfWidth, ch_peak + HalfWidth + 1)
           peak_i == PySlice(ch_ivar, ch_peak - HalfWidth, ch_peak + HalfWidth + 1)
           keep == Kept(peak_w, peak_f, peak_i)
       IN  ch_win' = [wave |-> Filter(peak_w, keep, 1),
                      flux |-> Filter(peak_f, keep, 1),
                      ivar |-> Filter(peak_i, keep, 1)]
    /\ ch_amp' = Index(ch_flux, ch_peak)
    /\ ch_pc' = "single"
    /\ UNCHANGED <<ch_wave, ch_flux, ch_ivar, ch_peak, ch_best, ch_min, ch_max, ch_reads>>
    /\ UNCHANGED <<detVars, daVars, rsVars, inVars, itVars, cnVars>>

\* _characterize_single, the two grid searches.  On an empty window every
\* chi-square is the empty sum and np.interp(best_idx, range(0), wave)
\* raises ValueError (the array of sample points is empty).
grid_search ==
    /\ ch_pc = "single"
    /\ IF Len(ch_win.wave) = 0
       THEN ch_pc' = "ValueError" /\ UNCHANGED ch_best
       ELSE /\ ch_best' \in 0..(GridPoints - 1)
            /\ ch_pc' = "low"
    /\ UNCHANGED <<ch_wave, ch_flux, ch_ivar, ch_peak, ch_win, ch_amp, ch_min, ch_max, ch_reads>>
    /\ UNCHANGED <<detVars, daVars, rsVars, inVars, itVars, cnVars>>

\* _characterize_single, the low side: the walk from wave_idx - 1, then
\* wave[0] or the interpolation over flux[min:min+2], wave[min:min+2].
walk_low ==
    /\ ch_pc = "low"
    /\ LET wave_idx == Len(ch_win.wave) \div 2
           w == WalkLow(ch_win.flux, ch_amp, ch_best, wave_idx - 1, {})
       IN  /\ ch_min' = w.pos
           /\ IF w.error
              THEN ch_pc' = "IndexError" /\ ch_reads' = ch_reads \cup w.reads
              ELSE /\ ch_pc' = "high"
                   /\ ch_reads' = ch_reads \cup w.reads \cup
                         (IF w.pos = 0 THEN {0}
                          ELSE SliceIndices(ch_win.flux, w.pos, w.pos + 2))
    /\ UNCHANGED <<ch_wave, ch_flux, ch_ivar, ch_peak, ch_win, ch_amp, ch_best, ch_max>>
    /\ UNCHANGED <<detVars, daVars, rsVars, inVars, itVars, cnVars>>

\* _characterize_single, the high side: the walk from wave_idx + 1, then
\* wave[-1] (when max == 0) or the interpolation over flux[max-1:max+1].
walk_high ==
    /\ ch_pc = "high"
    /\ LET wave_idx == Len(ch_win.wave) \div 2
           w == WalkHigh(ch_win.flux, ch_amp, ch_best, wave_idx + 1, {})
       IN  /\ ch_max' = w.pos
           /\ IF w.error
              THEN ch_pc' = "IndexError" /\ ch_reads' = ch_reads \cup w.reads
              ELSE /\ ch_pc' = "done"
                   /\ ch_reads' = ch_reads \cup w.reads \cup
                         (IF w.pos = 0 THEN {0 - 1}
                          ELSE SliceIndices(ch_win.flux, w.pos - 1, w.pos + 1))
    /\ UNCHANGED <<ch_wave, ch_flux, ch_ivar, ch_peak, ch_win, ch_amp, ch_best, ch_min>>
    /\ UNCHANGED <<detVars, daVars, rsVars, inVars, itVars, cnVars>>

-----------------------------------------------------------------------------
(* Claims about the line characterizer *)

\* _characterize_single has been entered.
Entered == ch_pc \in {"single", "low", "high", "done", "ValueError", "IndexError"}

\* C8: a candidate whose window holds no usable sample is rejected before
\* any fitting step: _characterize_single is never entered with an empty
\* window.
C8_EmptyWindowRejected == Entered => Len(ch_win.wave) > 0

\* C10: on a window of 1 to 21 samples both walks end without reading out
\* of range, and every index used to read flux or wave during the walks and
\* the half-maximum interpolation lies in 0 .. len(window) - 1.
C10_WalkWithinBounds ==
    (Entered /\ Len(ch_win.wave) \in 1..(2 * HalfWidth + 1)) =>
        /\ ch_pc # "IndexError"
        /\ \A i \in ch_reads : 0 <= i /\ i <= Len(ch_win.wave) - 1

-----------------------------------------------------------------------------
(* Specifications *)

InitDetect == DetInit /\ DaIdle /\ RsIdle /\ InIdle /\ ItIdle /\ CnIdle /\ ChIdle
NextDetect == Detect
SpecDetect == InitDetect /\ [][NextDetect]_vars

InitDetectAll == DaInit /\ DetIdle /\ RsIdle /\ InIdle /\ ItIdle /\ CnIdle /\ ChIdle
NextDetectAll == detect_all_iter \/ detect_all_return
SpecDetectAll == InitDetectAll /\ [][NextDetectAll]_vars

InitResiduals == RsInit /\ DetIdle /\ DaIdle /\ InIdle /\ ItIdle /\ CnIdle /\ ChIdle
NextResiduals == GetResiduals
SpecResiduals == InitResiduals /\ [][NextResiduals]_vars

InitInject == InInit /\ DetIdle /\ DaIdle /\ RsIdle /\ CnIdle /\ ChIdle
NextInject == inject \/ injection_test_trial \/ injection_test_return
SpecInject == InitInject /\ [][NextInject]_vars

InitContinuum == CnInit /\ DetIdle /\ DaIdle /\ RsIdle /\ InIdle /\ ItIdle /\ ChIdle
NextContinuum ==
    select_segment \/ fit_bands \/ evaluate_bands \/ continuum_normalize_return
SpecContinuum == InitContinuum /\ [][NextContinuum]_vars

InitCharacterize ==
    ChInit /\ DetIdle /\ DaIdle /\ RsIdle /\ InIdle /\ ItIdle /\ CnIdle
NextCharacterize == characterize \/ grid_search \/ walk_low \/ walk_high
SpecCharacterize == InitCharacterize /\ [][NextCharacterize]_vars

=============================================================================
